---- MODULE Spec2Model ----
(***************************************************************************)
(* A model of src/mosaic.py, the photo-mosaic generator.                   *)
(*                                                                         *)
(* Five specifications share the variables below:                          *)
(*   Spec        a run of main() on the module's constants, one step per   *)
(*               statement; images are their sizes, tile files are counted *)
(*   SpecMosaic  build_kdtree, make_mosaic and blend_to_image1_style on    *)
(*               small arguments, make_mosaic cell by cell, the canvas     *)
(*               pixel by pixel                                            *)
(*   SpecE2E     the same steps on the 4x3 grid, 2x2-pixel tiles, 25 solid *)
(*               tiles and a flat source image                             *)
(*   SpecGrid    choose_grid_size applied to drawn arguments               *)
(*   SpecAlpha   auto_tile_alpha applied to two drawn grids                *)
(*                                                                         *)
(* Conventions.  A name not yet bound holds None (images, lists, trees),   *)
(* Unset (integers) or NoErr (the exception).  Lists indexed from 0 are    *)
(* functions on 0..n-1.  A colour is a triple of integers.  An alpha is an *)
(* integer number of millionths (0.18 is 180000).                          *)
(***************************************************************************)
EXTENDS Integers, Sequences, FiniteSets, TLC

None == <<>>
Unset == 0 - 1
NoErr == "none"

(***************************************************************************)
(* Module constants of mosaic.py                                           *)
(***************************************************************************)
TILE_W == 40
TILE_H == 40
MIN_COLS == 60
MAX_COLS == 160
TOP_K == 50
\* 0.18 and 0.45, in millionths
ALPHA_MIN == 180000
ALPHA_MAX == 450000
\* the literal of main's "if len(tile_imgs) < 20"
MIN_TILES == 20

(***************************************************************************)
(* Bounds of the model                                                     *)
(***************************************************************************)
\* SpecGrid: choose_grid_size is applied to main_w in 1..MaxSrcW,
\* main_h in 1..MaxSrcH, tile_w in 1..MaxTileW, tile_h in 1..MaxTileH
MaxSrcW == 400
MaxSrcH == 3
MaxTileW == 3
MaxTileH == 2
\* SpecAlpha: cols and rows are the multiples of 25 up to 25 * MaxAlphaDim
MaxAlphaDim == 8
\* Spec: the tiles directory holds at most MaxFiles matching files
MaxFiles == 22
\* SpecMosaic: at most MaxTiles tiles, grids of at most MaxCells cells,
\* top_k in 1..MaxTopK or TOP_K
MaxTiles == 3
MaxCells == 4
MaxTopK == 2

\* Spec: the widths and heights main's source image may have
MainDims == {40, 2400, 4000, 6400, 8000}

(***************************************************************************)
(* Arithmetic helpers                                                      *)
(***************************************************************************)
Max(a, b) == IF a >= b THEN a ELSE b
Min(a, b) == IF a <= b THEN a ELSE b

\* clamp(x, lo, hi): lo if x < lo else hi if x > hi else x
clamp(x, lo, hi) == IF x < lo THEN lo ELSE IF x > hi THEN hi ELSE x

\* int(round(n / d)) for n >= 0, d > 0, where the quotient was computed in
\* binary floating point: away from a half the nearest integer; at an exact
\* half the float product may land on either side of it (or on it, and then
\* round() goes to the even neighbour), so both neighbours are outcomes.
RoundedQuotients(n, d) ==
    LET q == n \div d
        r == n % d
    IN  IF 2 * r < d THEN {q}
        ELSE IF 2 * r > d THEN {q + 1}
        ELSE {q, q + 1}

(***************************************************************************)
(* choose_grid_size and auto_tile_alpha                                    *)
(***************************************************************************)
\* a plausible slip: the lower clamp is lost
GridColsNoFloor(main_w, tile_w) == Min(main_w \div tile_w, MAX_COLS)

\* cols = clamp(main_w // tile_w, MIN_COLS, MAX_COLS)
GridCols(main_w, tile_w) == clamp(main_w \div tile_w, MIN_COLS, MAX_COLS)

\* rows = max(1, int(round(cols * (main_h / float(main_w)))))
GridRows(cols, main_w, main_h) ==
    {Max(1, r) : r \in RoundedQuotients(cols * main_h, main_w)}

\* The results choose_grid_size can return: <<cols, rows>>.
choose_grid_size(main_w, main_h, tile_w, tile_h) ==
    LET cols == GridCols(main_w, tile_w)
    IN  {<<cols, rows>> : rows \in GridRows(cols, main_w, main_h)}

\* a plausible slip: the clamp is left out
auto_tile_alpha_unclamped(cols, rows) == 420000 - 8 * (cols * rows)

\* a plausible slip: the slope has the wrong sign
auto_tile_alpha_rising(cols, rows) ==
    clamp(200000 + 8 * (cols * rows), ALPHA_MIN, ALPHA_MAX)

\* alpha = 0.42 - 0.000008 * density, clamped to [ALPHA_MIN, ALPHA_MAX]
auto_tile_alpha(cols, rows) ==
    LET density == cols * rows
        alpha == 420000 - 8 * density
    IN  clamp(alpha, ALPHA_MIN, ALPHA_MAX)

(***************************************************************************)
(* State                                                                   *)
(***************************************************************************)
VARIABLES
    pc,               \* the statement about to run
    args, ret,        \* SpecGrid, SpecAlpha: the arguments drawn, the results
    \* ---- main()
    main_exists,      \* os.path.exists(MAIN_IMAGE_PATH)
    tiles_isdir,      \* os.path.isdir(TILES_DIR)
    paths,            \* load_tile_images: how many files sorted(set(paths)) holds
    path_i,           \* load_tile_images: files tried so far
    images,           \* load_tile_images: len(images)
    skipped,          \* files whose decode raised
    err,              \* the exception main() ended with
    output_written,   \* final.save wrote OUTPUT_PATH
    \* ---- the pipeline
    main_img,         \* the source image
    tile_imgs,        \* the decoded tile images
    cols, rows,       \* the grid
    tile_w, tile_h, top_k,
    resized_tiles, tree,
    tree_query,       \* what tree.query returned, per colour queried
    target_colors,    \* make_mosaic: rows x cols target colours
    canvas,           \* make_mosaic: the canvas
    k, last_idx, x, y, chosen,
    selection,        \* per cell visited: its candidates and the tile chosen
    pastes,           \* every canvas.paste call, in order
    mosaic_img, original_resized, alpha, blended, final

fnVars == <<args, ret>>
mainVars == <<main_exists, tiles_isdir, paths, path_i, images, skipped, err,
              output_written>>
inputVars == <<main_img, tile_imgs, tile_w, tile_h, top_k>>
mosaicVars == <<resized_tiles, tree, tree_query, target_colors, canvas, k,
                last_idx, x, y, chosen, selection, pastes>>
blendVars == <<mosaic_img, original_resized, alpha, blended, final>>
vars == <<pc, fnVars, mainVars, inputVars, cols, rows, mosaicVars, blendVars>>

FnIdle == args = None /\ ret = None
MainIdle ==
    /\ main_exists = TRUE /\ tiles_isdir = TRUE
    /\ paths = Unset /\ path_i = 0 /\ images = 0 /\ skipped = 0
    /\ err = NoErr /\ output_written = FALSE
MosaicIdle ==
    /\ resized_tiles = None /\ tree = None /\ tree_query = None
    /\ target_colors = None /\ canvas = None /\ k = Unset
    /\ last_idx = Unset /\ x = Unset /\ y = Unset /\ chosen = Unset
    /\ selection = <<>> /\ pastes = <<>>
BlendIdle ==
    /\ mosaic_img = None /\ original_resized = None /\ alpha = Unset
    /\ blended = FALSE /\ final = None
InputIdle ==
    /\ main_img = None /\ tile_imgs = None
    /\ tile_w = Unset /\ tile_h = Unset /\ top_k = Unset
GridIdle == cols = Unset /\ rows = Unset

(***************************************************************************)
(* SpecGrid: choose_grid_size on drawn arguments                           *)
(***************************************************************************)
InitGrid ==
    /\ pc = "choose_grid_size"
    /\ args \in [main_w : 1..MaxSrcW, main_h : 1..MaxSrcH,
                 tile_w : 1..MaxTileW, tile_h : 1..MaxTileH]
    /\ ret = None
    /\ MainIdle /\ InputIdle /\ GridIdle /\ MosaicIdle /\ BlendIdle

ChooseGridSizeCall ==
    /\ pc = "choose_grid_size"
    /\ \E g \in choose_grid_size(args.main_w, args.main_h, args.tile_w, args.tile_h) :
          ret' = g
    /\ pc' = "returned"
    /\ UNCHANGED <<args, mainVars, inputVars, cols, rows, mosaicVars, blendVars>>

NextGrid == ChooseGridSizeCall
SpecGrid == InitGrid /\ [][NextGrid]_vars

(***************************************************************************)
(* SpecAlpha: auto_tile_alpha on two drawn grids, one call after the other *)
(***************************************************************************)
AlphaDims == {25 * i : i \in 0..MaxAlphaDim}
AlphaGrids == AlphaDims \X AlphaDims

InitAlpha ==
    /\ pc = "auto_tile_alpha"
    /\ args \in [1..2 -> AlphaGrids]
    /\ ret = <<>>
    /\ MainIdle /\ InputIdle /\ GridIdle /\ MosaicIdle /\ BlendIdle

AutoTileAlphaCall ==
    /\ pc = "auto_tile_alpha"
    /\ LET g == args[Len(ret) + 1]
       IN  ret' = Append(ret, auto_tile_alpha(g[1], g[2]))
    /\ pc' = IF Len(ret) + 1 = 2 THEN "returned" ELSE pc
    /\ UNCHANGED <<args, mainVars, inputVars, cols, rows, mosaicVars, blendVars>>

NextAlpha == AutoTileAlphaCall
SpecAlpha == InitAlpha /\ [][NextAlpha]_vars

\* C2: for positive sizes with main_w >= tile_w, choose_grid_size returns
\* cols within [MIN_COLS, MAX_COLS], that is 60..160, and rows >= 1.
GridWithinBounds ==
    (pc = "returned" /\ args.main_w >= args.tile_w)
        => /\ ret[1] >= 60 /\ ret[1] <= 160
           /\ ret[1] >= MIN_COLS /\ ret[1] <= MAX_COLS
           /\ ret[2] >= 1

\* C2 witness: a source narrower than 60 tiles and so flat that the rounded
\* row count is 0; the call returned the clamped grid.
GridClampedWitness ==
    /\ pc = "returned"
    /\ args.main_w >= args.tile_w
    /\ args.main_w \div args.tile_w < MIN_COLS
    /\ 2 * MIN_COLS * args.main_h < args.main_w
    /\ ret = <<MIN_COLS, 1>>

\* the alpha before clamping, as the claim writes it
RawAlpha(g) == 420000 - 8 * (g[1] * g[2])
Unclamped(g) == RawAlpha(g) >= ALPHA_MIN /\ RawAlpha(g) <= ALPHA_MAX

\* C3: every value auto_tile_alpha returns lies within [ALPHA_MIN, ALPHA_MAX]
\* (0.18..0.45), whatever the non-negative density.
AlphaWithinBounds ==
    pc \in {"auto_tile_alpha", "returned"}
        => \A i \in 1..Len(ret) : ret[i] >= ALPHA_MIN /\ ret[i] <= ALPHA_MAX

\* C3 witness: a grid whose unclamped alpha falls below ALPHA_MIN has been
\* evaluated and the call returned ALPHA_MIN.
AlphaClampedWitness ==
    /\ pc = "returned"
    /\ RawAlpha(args[1]) < ALPHA_MIN
    /\ ret[1] = ALPHA_MIN

\* C4: for two grids of densities d1 <= d2, both in the unclamped region,
\* the alpha returned for the first is >= the alpha returned for the second.
AlphaMonotone ==
    (/\ pc = "returned"
     /\ args[1][1] * args[1][2] <= args[2][1] * args[2][2]
     /\ Unclamped(args[1]) /\ Unclamped(args[2]))
        => ret[1] >= ret[2]

\* C4 witness: two unclamped grids of different density, both evaluated,
\* the denser one with the strictly smaller alpha.
AlphaMonotoneWitness ==
    /\ pc = "returned"
    /\ args[1][1] * args[1][2] < args[2][1] * args[2][2]
    /\ Unclamped(args[1]) /\ Unclamped(args[2])
    /\ ret[1] > ret[2]

(***************************************************************************)
(* Spec: a run of main()                                                   *)
(***************************************************************************)
\* the steps of main() that call into the image library, the index or the
\* file system and so may raise
MayRaise == {"load_main", "main_kdtree", "main_mosaic", "main_blend", "save"}

Init ==
    /\ pc = "check_main"
    /\ main_exists \in BOOLEAN
    /\ tiles_isdir \in BOOLEAN
    /\ paths = Unset /\ path_i = 0 /\ images = 0 /\ skipped = 0
    /\ err = NoErr /\ output_written = FALSE
    /\ FnIdle /\ InputIdle /\ GridIdle /\ MosaicIdle /\ BlendIdle

\* if not os.path.exists(MAIN_IMAGE_PATH): raise FileNotFoundError
CheckMainImage ==
    /\ pc = "check_main"
    /\ IF main_exists
         THEN pc' = "check_tiles_dir" /\ err' = err
         ELSE pc' = "aborted" /\ err' = "FileNotFoundError"
    /\ UNCHANGED <<fnVars, main_exists, tiles_isdir, paths, path_i, images,
                   skipped, output_written, inputVars, cols, rows, mosaicVars,
                   blendVars>>

\* if not os.path.isdir(TILES_DIR): raise NotADirectoryError
CheckTilesDir ==
    /\ pc = "check_tiles_dir"
    /\ IF tiles_isdir
         THEN pc' = "load_main" /\ err' = err
         ELSE pc' = "aborted" /\ err' = "NotADirectoryError"
    /\ UNCHANGED <<fnVars, main_exists, tiles_isdir, paths, path_i, images,
                   skipped, output_written, inputVars, cols, rows, mosaicVars,
                   blendVars>>

\* main_img = load_rgb_image(MAIN_IMAGE_PATH)
LoadMainImage ==
    /\ pc = "load_main"
    /\ \E w \in MainDims, h \in MainDims : main_img' = [size |-> <<w, h>>]
    /\ pc' = "glob"
    /\ UNCHANGED <<fnVars, mainVars, tile_imgs, tile_w, tile_h, top_k, cols,
                   rows, mosaicVars, blendVars>>

\* load_tile_images: the glob loop; sorted(set(paths)) holds some number of files
GlobTilePaths ==
    /\ pc = "glob"
    /\ paths' \in 0..MaxFiles
    /\ pc' = "load_tiles"
    /\ UNCHANGED <<fnVars, main_exists, tiles_isdir, path_i, images, skipped,
                   err, output_written, inputVars, cols, rows, mosaicVars,
                   blendVars>>

\* try: images.append(load_rgb_image(p)) / except Exception: continue
ImagesAfter(n, decoded) == IF decoded THEN n + 1 ELSE n

\* one iteration of load_tile_images' loop over sorted(set(paths))
LoadTileImage ==
    /\ pc = "load_tiles"
    /\ path_i < paths
    /\ \E decoded \in BOOLEAN :
          /\ images' = ImagesAfter(images, decoded)
          /\ skipped' = IF decoded THEN skipped ELSE skipped + 1
    /\ path_i' = path_i + 1
    /\ UNCHANGED <<pc, fnVars, main_exists, tiles_isdir, paths, err,
                   output_written, inputVars, cols, rows, mosaicVars, blendVars>>

\* a plausible slip: the comparison is off by one
TooFewTilesOffByOne(n) == n < MIN_TILES - 1

\* a plausible slip: the run goes on whatever the tile count
TooFewTilesNever(n) == FALSE

\* if len(tile_imgs) < 20
TooFewTiles(n) == n < MIN_TILES

\* load_tile_images returns; if len(tile_imgs) < 20: raise RuntimeError
CheckTileCount ==
    /\ pc = "load_tiles"
    /\ path_i = paths
    /\ IF TooFewTiles(images)
         THEN pc' = "aborted" /\ err' = "RuntimeError"
         ELSE pc' = "choose_grid" /\ err' = err
    /\ UNCHANGED <<fnVars, main_exists, tiles_isdir, paths, path_i, images,
                   skipped, output_written, inputVars, cols, rows, mosaicVars,
                   blendVars>>

\* cols, rows = choose_grid_size(main_w, main_h, TILE_W, TILE_H)
MainChooseGrid ==
    /\ pc = "choose_grid"
    /\ \E g \in choose_grid_size(main_img.size[1], main_img.size[2], TILE_W, TILE_H) :
          cols' = g[1] /\ rows' = g[2]
    /\ pc' = "main_kdtree"
    /\ UNCHANGED <<fnVars, mainVars, inputVars, mosaicVars, blendVars>>

\* resized_tiles, tree = build_kdtree(tile_imgs, (TILE_W, TILE_H)); of the
\* tiles and of the index this specification keeps the count and the size
MainBuildKDTree ==
    /\ pc = "main_kdtree"
    /\ resized_tiles' = [n |-> images, size |-> <<TILE_W, TILE_H>>]
    /\ tree' = [n |-> images]
    /\ pc' = "main_mosaic"
    /\ UNCHANGED <<fnVars, mainVars, inputVars, cols, rows, tree_query,
                   target_colors, canvas, k, last_idx, x, y, chosen, selection,
                   pastes, blendVars>>

\* mosaic_img = make_mosaic(...): of the canvas returned this specification
\* keeps the size (SpecMosaic runs the function cell by cell)
MainMakeMosaic ==
    /\ pc = "main_mosaic"
    /\ mosaic_img' = [size |-> <<cols * TILE_W, rows * TILE_H>>]
    /\ pc' = "main_blend"
    /\ UNCHANGED <<fnVars, mainVars, inputVars, cols, rows, mosaicVars,
                   original_resized, alpha, blended, final>>

\* final, alpha = blend_to_image1_style(main_img, mosaic_img, cols, rows)
MainBlend ==
    /\ pc = "main_blend"
    /\ original_resized' = [size |-> mosaic_img.size]
    /\ alpha' = auto_tile_alpha(cols, rows)
    /\ blended' = TRUE
    /\ final' = [size |-> mosaic_img.size]
    /\ pc' = "save"
    /\ UNCHANGED <<fnVars, mainVars, inputVars, cols, rows, mosaicVars,
                   mosaic_img>>

\* final.save(OUTPUT_PATH, quality=95)
MainSave ==
    /\ pc = "save"
    /\ output_written' = TRUE
    /\ pc' = "done"
    /\ UNCHANGED <<fnVars, main_exists, tiles_isdir, paths, path_i, images,
                   skipped, err, inputVars, cols, rows, mosaicVars, blendVars>>

\* a library call raises: main() has no handler, the exception ends the run
MainRaise ==
    /\ pc \in MayRaise
    /\ pc' = "aborted"
    /\ err' = "Exception"
    /\ UNCHANGED <<fnVars, main_exists, tiles_isdir, paths, path_i, images,
                   skipped, output_written, inputVars, cols, rows, mosaicVars,
                   blendVars>>

Next ==
    \/ CheckMainImage
    \/ CheckTilesDir
    \/ LoadMainImage
    \/ GlobTilePaths
    \/ LoadTileImage
    \/ CheckTileCount
    \/ MainChooseGrid
    \/ MainBuildKDTree
    \/ MainMakeMosaic
    \/ MainBlend
    \/ MainSave
    \/ MainRaise

Spec == Init /\ [][Next]_vars

\* main() is past the tile-count check
PastTileCheck == paths # Unset /\ pc \notin {"glob", "load_tiles"}

\* C5: a file that fails to decode is skipped and not counted (the images
\* kept are the files tried less the files that raised), and the run ends
\* with the insufficient-tiles error exactly when fewer than 20 images were
\* kept, whatever the number of files skipped.
TileCountBoundary ==
    /\ images = path_i - skipped
    /\ PastTileCheck => (err = "RuntimeError" <=> images < 20)
    /\ PastTileCheck => (err = "RuntimeError" <=> images <= MIN_TILES - 1)
    /\ err = "RuntimeError" => pc = "aborted"

\* C5 witness: 19 decodable files and at least one undecodable file ended
\* the run with the insufficient-tiles error.
TileCountWitness ==
    /\ pc = "aborted"
    /\ err = "RuntimeError"
    /\ images = MIN_TILES - 1
    /\ skipped > 0

\* C6: the output file is written only by a run in which every preceding
\* step succeeded; a run that ended with an error wrote no output; and a
\* missing source image ends the run before anything is loaded or computed.
NoOutputOnFailure ==
    /\ output_written =>
          /\ pc = "done" /\ err = NoErr
          /\ main_exists /\ tiles_isdir
          /\ main_img # None
          /\ paths # Unset /\ path_i = paths /\ images >= MIN_TILES
          /\ cols # Unset /\ rows # Unset
          /\ tree # None /\ mosaic_img # None
          /\ blended /\ final # None
    /\ (pc = "aborted" \/ err # NoErr) => ~output_written
    /\ ~main_exists =>
          /\ pc \in {"check_main", "aborted"}
          /\ main_img = None /\ paths = Unset /\ path_i = 0 /\ images = 0
          /\ cols = Unset /\ tree = None /\ mosaic_img = None /\ final = None
    /\ (pc = "aborted" /\ ~main_exists) => err = "FileNotFoundError"
    /\ (pc = "aborted" /\ main_exists /\ ~tiles_isdir) =>
          err = "NotADirectoryError" /\ main_img = None /\ paths = Unset

\* C6 witness: a run with too few tiles has aborted, after the source image
\* was loaded, without writing the output.
NoOutputWitness ==
    /\ pc = "aborted"
    /\ err = "RuntimeError"
    /\ main_img # None
    /\ ~output_written

(***************************************************************************)
(* Images, colours and the nearest-neighbour index                         *)
(***************************************************************************)
\* the colours the small runs draw tile averages and target colours from
Palette == <<<<0, 0, 0>>, <<100, 50, 0>>, <<200, 100, 0>>>>
\* target colours: one that a tile matches exactly, one midway between two tiles
TargetColors == {Palette[1], Palette[2]}

\* squared Euclidean distance in RGB (the order KDTree.query sorts by)
Dist2(a, b) ==
    (a[1] - b[1]) * (a[1] - b[1]) + (a[2] - b[2]) * (a[2] - b[2])
        + (a[3] - b[3]) * (a[3] - b[3])

\* ImageOps.fit(img, size, ...): the tile cropped and resized to exactly size
fit_to_size(img, size) == [size |-> size, color |-> img.color]

\* average_rgb(img); a tile image is modelled by its size and this average
average_rgb(img) == img.color

\* a plausible slip: any k tiles, near or far
AnyKSets(points, color, kk) ==
    {S \in SUBSET (DOMAIN points) : Cardinality(S) = kk}

\* The index sets tree.query(color, k=kk) can return, for kk <= len(points):
\* the kk points nearest color.  Points nearer than the kk-th distance are
\* always in; among points tied at the kk-th distance the tree's traversal
\* order decides, so every way of filling up to kk from them is an outcome.
KNearestSets(points, color, kk) ==
    LET d(i) == Dist2(points[i], color)
        Closer(i) == {j \in DOMAIN points : d(j) < d(i)}
        NotFarther(i) == {j \in DOMAIN points : d(j) <= d(i)}
        Definite == {i \in DOMAIN points : Cardinality(NotFarther(i)) <= kk}
        Tied == {i \in DOMAIN points : Cardinality(Closer(i)) < kk} \ Definite
    IN  {Definite \cup B :
           B \in {S \in SUBSET Tied : Cardinality(S) = kk - Cardinality(Definite)}}

\* Image.new("RGB", size): every pixel blank (Unset)
NewImage(size) ==
    [size |-> size,
     px |-> [p \in (0..(size[1] - 1)) \X (0..(size[2] - 1)) |-> Unset]]

\* canvas.paste(tile, origin): the tile's box, clipped to the canvas, now
\* shows tile number idx
Paste(img, idx, tile, origin) ==
    [img EXCEPT !.px =
        [p \in DOMAIN img.px |->
            IF /\ p[1] >= origin[1] /\ p[1] < origin[1] + tile.size[1]
               /\ p[2] >= origin[2] /\ p[2] < origin[2] + tile.size[2]
              THEN idx ELSE img.px[p]]]

\* a plausible slip: width and height taken the wrong way round
PasteOriginSwapped(cx, cy, tw, th) == <<cx * th, cy * tw>>

\* (x * tile_w, y * tile_h)
PasteOrigin(cx, cy, tw, th) == <<cx * tw, cy * th>>

\* a plausible slip: no anti-repeat filter
ChoicesUnfiltered(candidates, last) == candidates

\* The tiles random.choice may return: with more than one candidate, the
\* candidates other than last_idx if there are any, else all of them.
Choices(candidates, last) ==
    IF Cardinality(candidates) > 1
      THEN LET filtered == candidates \ {last}
           IN  IF filtered # {} THEN filtered ELSE candidates
      ELSE candidates

\* main_img.resize((cols, rows), BILINEAR) as an array: a flat image stays
\* flat; of any other image every cell may come out any colour
ResizeResults(img, c, r) ==
    LET cells == (0..(r - 1)) \X (0..(c - 1))
    IN  IF img.flat # None
          THEN {[cell \in cells |-> img.flat]}
          ELSE [cells -> TargetColors]

(***************************************************************************)
(* SpecMosaic: build_kdtree, make_mosaic, blend_to_image1_style            *)
(***************************************************************************)
\* tile libraries: n tiles of differing native sizes, colours cycling
\* through the palette
Library(n) ==
    [i \in 0..(n - 1) |->
        [size |-> <<3 + i, 2>>, color |-> Palette[(i % Len(Palette)) + 1]]]

TilePixelSizes == {<<1, 2>>, <<2, 1>>}

InitMosaic ==
    /\ pc = "build_kdtree"
    /\ tile_imgs \in {Library(n) : n \in 1..MaxTiles}
    /\ main_img = [size |-> <<7, 5>>, flat |-> None]
    /\ \E ts \in TilePixelSizes : tile_w = ts[1] /\ tile_h = ts[2]
    /\ top_k \in (1..MaxTopK) \cup {TOP_K}
    /\ cols \in 1..MaxCells
    /\ rows \in 1..MaxCells
    /\ cols * rows <= MaxCells
    /\ FnIdle /\ MainIdle /\ MosaicIdle /\ BlendIdle

\* build_kdtree(tile_imgs, (tile_w, tile_h))
BuildKDTree ==
    /\ pc = "build_kdtree"
    /\ LET resized == [i \in DOMAIN tile_imgs |->
                          fit_to_size(tile_imgs[i], <<tile_w, tile_h>>)]
       IN  /\ resized_tiles' = resized
           /\ tree' = [i \in DOMAIN tile_imgs |-> average_rgb(resized[i])]
    /\ tree_query' = <<>>
    /\ pc' = "resize"
    /\ UNCHANGED <<fnVars, mainVars, inputVars, cols, rows, target_colors,
                   canvas, k, last_idx, x, y, chosen, selection, pastes,
                   blendVars>>

\* make_mosaic step 1: main_small, target_colors
MosaicResize ==
    /\ pc = "resize"
    /\ target_colors' \in ResizeResults(main_img, cols, rows)
    /\ pc' = "new_canvas"
    /\ UNCHANGED <<fnVars, mainVars, inputVars, cols, rows, resized_tiles,
                   tree, tree_query, canvas, k, last_idx, x, y, chosen,
                   selection, pastes, blendVars>>

\* a plausible slip: top_k is ignored and every tile is a candidate
QueryKAll(topk, n_tiles) == n_tiles

\* k = min(top_k, n_tiles)
QueryK(topk, n_tiles) == Min(topk, n_tiles)

\* make_mosaic step 2 and the loop's set-up: canvas, n_tiles, k, last_idx
MosaicNewCanvas ==
    /\ pc = "new_canvas"
    /\ canvas' = NewImage(<<cols * tile_w, rows * tile_h>>)
    /\ k' = QueryK(top_k, Cardinality(DOMAIN resized_tiles))
    /\ last_idx' = 0 - 1
    /\ x' = 0 /\ y' = 0
    /\ pc' = "loop"
    /\ UNCHANGED <<fnVars, mainVars, inputVars, cols, rows, resized_tiles,
                   tree, tree_query, target_colors, chosen, selection, pastes,
                   blendVars>>

\* one cell, first half: query the tree, filter, random.choice.  tree.query
\* is a function of the frozen tree: a colour queried before gets the
\* answer it got then.
MosaicSelect ==
    /\ pc = "loop"
    /\ y < rows
    /\ LET color == target_colors[<<y, x>>]
           answers == IF color \in DOMAIN tree_query
                        THEN {tree_query[color]}
                        ELSE KNearestSets(tree, color, k)
       IN  \E candidates \in answers :
             /\ tree_query' = [c \in DOMAIN tree_query \cup {color} |->
                                  IF c = color THEN candidates ELSE tree_query[c]]
             /\ \E t \in Choices(candidates, last_idx) :
                   /\ chosen' = t
                   /\ selection' = Append(selection,
                          [cell |-> <<y, x>>, candidates |-> candidates,
                           prev |-> last_idx, chosen |-> t])
    /\ pc' = "paste"
    /\ UNCHANGED <<fnVars, mainVars, inputVars, cols, rows, resized_tiles,
                   tree, target_colors, canvas, k, last_idx, x, y, pastes,
                   blendVars>>

\* one cell, second half: paste the tile, remember it, advance the scan
MosaicPaste ==
    /\ pc = "paste"
    /\ LET tile == resized_tiles[chosen]
           origin == PasteOrigin(x, y, tile_w, tile_h)
       IN  /\ canvas' = Paste(canvas, chosen, tile, origin)
           /\ pastes' = Append(pastes,
                  [tile |-> chosen, at |-> origin, size |-> tile.size])
    /\ last_idx' = chosen
    /\ IF x + 1 < cols
         THEN x' = x + 1 /\ y' = y
         ELSE x' = 0 /\ y' = y + 1
    /\ pc' = "loop"
    /\ UNCHANGED <<fnVars, mainVars, inputVars, cols, rows, resized_tiles,
                   tree, tree_query, target_colors, k, chosen, selection,
                   blendVars>>

\* a plausible slip: the canvas is handed on before the scan has ended
MosaicReturnEarly ==
    /\ pc = "loop"
    /\ mosaic_img' = canvas
    /\ pc' = "blend"
    /\ UNCHANGED <<fnVars, mainVars, inputVars, cols, rows, mosaicVars,
                   original_resized, alpha, blended, final>>

\* both loops are exhausted: return canvas
MosaicReturn ==
    /\ pc = "loop"
    /\ y >= rows
    /\ mosaic_img' = canvas
    /\ pc' = "blend"
    /\ UNCHANGED <<fnVars, mainVars, inputVars, cols, rows, mosaicVars,
                   original_resized, alpha, blended, final>>

\* blend_to_image1_style: resize the original, compute alpha, Image.blend
Blend ==
    /\ pc = "blend"
    /\ original_resized' = [size |-> mosaic_img.size]
    /\ alpha' = auto_tile_alpha(cols, rows)
    /\ blended' = TRUE
    /\ pc' = "sharpen"
    /\ UNCHANGED <<fnVars, mainVars, inputVars, cols, rows, mosaicVars,
                   mosaic_img, final>>

\* blend_to_image1_style: the UnsharpMask filter; return blended, alpha
Sharpen ==
    /\ pc = "sharpen"
    /\ final' = [size |-> mosaic_img.size]
    /\ pc' = "done"
    /\ UNCHANGED <<fnVars, mainVars, inputVars, cols, rows, mosaicVars,
                   mosaic_img, original_resized, alpha, blended>>

NextMosaic ==
    \/ BuildKDTree
    \/ MosaicResize
    \/ MosaicNewCanvas
    \/ MosaicSelect
    \/ MosaicPaste
    \/ MosaicReturn
    \/ Blend
    \/ Sharpen

SpecMosaic == InitMosaic /\ [][NextMosaic]_vars

(***************************************************************************)
(* SpecE2E: the same steps on the end-to-end example                       *)
(***************************************************************************)
\* a 4x3 grid of 2x2-pixel tiles over a library of 25 solid tiles
E2E == [cols |-> 4, rows |-> 3, tile_w |-> 2, tile_h |-> 2, n_tiles |-> 25]

\* the library: the first 25 points of the lattice {0, 127, 254}^3
E2ELibrary ==
    [i \in 0..(E2E.n_tiles - 1) |->
        [size |-> <<5, 5>>,
         color |-> <<127 * (i % 3), 127 * ((i \div 3) % 3), 127 * (i \div 9)>>]]

\* flat source colours: near a corner of the cube, near its centre, and
\* white, which two tiles of the library are equally near
E2EFlatColors == {<<10, 20, 40>>, <<120, 130, 140>>, <<255, 255, 255>>}

InitE2E ==
    /\ pc = "build_kdtree"
    /\ tile_imgs = E2ELibrary
    /\ \E c \in E2EFlatColors : main_img = [size |-> <<16, 12>>, flat |-> c]
    /\ tile_w = E2E.tile_w /\ tile_h = E2E.tile_h
    /\ top_k \in 1..MaxTopK
    /\ cols = E2E.cols /\ rows = E2E.rows
    /\ FnIdle /\ MainIdle /\ MosaicIdle /\ BlendIdle

SpecE2E == InitE2E /\ [][NextMosaic]_vars

(***************************************************************************)
(* Properties of make_mosaic                                               *)
(***************************************************************************)
\* make_mosaic has returned
Returned == pc \in {"blend", "sharpen", "done"}

\* the i-th cell of the row-major scan, as <<row, column>>
ScanCell(i) == <<(i - 1) \div cols, (i - 1) % cols>>

\* for each library size, target colour and tile of the library, the
\* number of tiles whose average colour is strictly nearer the target
LibraryNearer ==
    [n \in 1..MaxTiles |->
        [c \in TargetColors |->
            [t \in 0..(n - 1) |->
                Cardinality({j \in 0..(n - 1) :
                    Dist2(Library(n)[j].color, c) < Dist2(Library(n)[t].color, c)})]]]

\* C1: in the row-major scan, the rolling last-chosen value carried across
\* row boundaries, the tile chosen for a cell differs from the tile chosen
\* for the cell before it whenever the second cell's candidate set has more
\* than one element.
NoImmediateRepeat ==
    \A i \in 1..Len(selection) :
        /\ selection[i].cell = ScanCell(i)
        /\ i > 1 => selection[i].prev = selection[i - 1].chosen
        /\ (i > 1 /\ Cardinality(selection[i].candidates) > 1)
              => selection[i].chosen # selection[i - 1].chosen

\* C1 witness: the first cell of the second row of a grid at least two
\* columns wide has been chosen from several candidates, the previous
\* row's last tile among them.
RepeatAvoidedWitness ==
    /\ cols >= 2
    /\ Len(selection) > cols
    /\ LET e == selection[cols + 1]
       IN  /\ e.cell = <<1, 0>>
           /\ Cardinality(e.candidates) > 1
           /\ selection[cols].chosen \in e.candidates

\* C8: the canvas is exactly (cols*tile_w, rows*tile_h) pixels; when
\* make_mosaic returns, every cell has had exactly one tile pasted, the one
\* selected for it, at origin (col*tile_w, row*tile_h), every paste lies
\* inside its cell, and no pixel is left blank.
CanvasExact ==
    /\ canvas # None =>
          /\ canvas.size = <<cols * tile_w, rows * tile_h>>
          /\ DOMAIN canvas.px =
                (0..(cols * tile_w - 1)) \X (0..(rows * tile_h - 1))
    /\ \A i \in 1..Len(pastes) :
          LET c == ScanCell(i)
          IN  /\ pastes[i].at = <<c[2] * tile_w, c[1] * tile_h>>
              /\ pastes[i].size = <<tile_w, tile_h>>
              /\ pastes[i].tile = selection[i].chosen
    /\ Returned =>
          /\ mosaic_img = canvas
          /\ Len(pastes) = cols * rows
          /\ \A p \in DOMAIN canvas.px :
                LET i == (p[2] \div tile_h) * cols + (p[1] \div tile_w) + 1
                IN  /\ selection[i].cell = <<p[2] \div tile_h, p[1] \div tile_w>>
                    /\ canvas.px[p] = selection[i].chosen

\* C8 witness: a 2x2 grid has been rendered and shows more than one tile.
CanvasExactWitness ==
    /\ Returned
    /\ cols = 2 /\ rows = 2
    /\ \E p, q \in DOMAIN canvas.px : canvas.px[p] # canvas.px[q]

\* C10: the tile chosen for a cell is a valid tile index and one of the
\* k = min(top_k, tile count) tiles nearest the cell's target colour; when
\* k is 1 the sole candidate, a nearest tile, is chosen for every cell.
ChosenAmongNearest ==
    \A i \in 1..Len(selection) :
        LET e == selection[i]
            n == Cardinality(DOMAIN tile_imgs)
            kk == Min(top_k, n)
            nearer == LibraryNearer[n][target_colors[e.cell]]
        IN  /\ e.chosen \in 0..(n - 1)
            /\ nearer[e.chosen] < kk
            /\ Cardinality(e.candidates) = kk
            /\ kk = 1 => /\ e.candidates = {e.chosen}
                         /\ nearer[e.chosen] = 0

\* C10 witness: with k = 2 of 3 tiles, a cell holds the second nearest tile.
SecondNearestWitness ==
    /\ Cardinality(DOMAIN tile_imgs) = 3
    /\ top_k = 2
    /\ \E i \in 1..Len(selection) :
          LibraryNearer[3][target_colors[selection[i].cell]][selection[i].chosen] = 1

\* C9 as stated: the canvas is not created or written until the selection
\* of every cell is complete.
CanvasAfterSelection ==
    canvas # None => Len(selection) = cols * rows

\* C9 amended: the index is built before the target field is computed, the
\* target field before the canvas is created, the canvas before the first
\* cell is selected; each cell is pasted right after its own selection and
\* before the next cell's; make_mosaic returns only when every cell is
\* pasted; blending starts only after that, and sharpening after blending.
StepOrder ==
    /\ target_colors # None => tree # None
    /\ canvas # None => target_colors # None
    /\ selection # <<>> => canvas # None
    /\ Len(pastes) <= Len(selection)
    /\ Len(selection) <= Len(pastes) + 1
    /\ pc = "loop" => Len(selection) = Len(pastes)
    /\ \A i \in 1..Len(pastes) : pastes[i].tile = selection[i].chosen
    /\ mosaic_img # None =>
          /\ Len(selection) = cols * rows
          /\ Len(pastes) = cols * rows
          /\ mosaic_img = canvas
    /\ blended => mosaic_img # None
    /\ final # None => blended

\* C9 witness: in the middle of the scan some cells are selected and
\* pasted while others are not yet selected.
InterleavedWitness ==
    /\ pc = "loop"
    /\ Len(pastes) > 0
    /\ Len(pastes) = Len(selection)
    /\ Len(selection) < cols * rows

\* for each flat colour of the example and each tile of its library, the
\* number of tiles whose colour is strictly nearer the flat colour
E2ENearer ==
    [c \in E2EFlatColors |->
        [t \in DOMAIN E2ELibrary |->
            Cardinality({j \in DOMAIN E2ELibrary :
                Dist2(E2ELibrary[j].color, c) < Dist2(E2ELibrary[t].color, c)})]]

\* a tile of the example's library no other tile is nearer than
IsNearest(t) == E2ENearer[main_img.flat][t] = 0

\* C7 as stated: the example's canvas is 8x6 and filled with the tile
\* nearest the flat colour, another tile appearing only in place of a
\* repeat of it; the first cell always holds the nearest tile.
E2EUniformNearest ==
    Returned =>
        /\ canvas.size = <<8, 6>>
        /\ IsNearest(selection[1].chosen)
        /\ \A i \in 2..Len(selection) :
              \/ IsNearest(selection[i].chosen)
              \/ IsNearest(selection[i - 1].chosen)

\* C7 amended: the example's canvas is 8x6; every cell, the first included,
\* holds one of the k = min(top_k, 25) tiles nearest the flat colour, and
\* with k > 1 a tile other than the one of the cell before it; every pixel
\* shows the tile of its cell; only with k = 1 is it the nearest tile
\* throughout.
E2ENearestK ==
    LET kk == Min(top_k, E2E.n_tiles)
    IN  /\ \A i \in 1..Len(selection) :
              /\ E2ENearer[main_img.flat][selection[i].chosen] < kk
              /\ (i > 1 /\ kk > 1) =>
                    selection[i].chosen # selection[i - 1].chosen
              /\ kk = 1 => /\ IsNearest(selection[i].chosen)
                           /\ selection[i].chosen = selection[1].chosen
        /\ Returned =>
              /\ canvas.size = <<8, 6>>
              /\ Len(selection) = 12
              /\ \A p \in DOMAIN canvas.px :
                    canvas.px[p] =
                        selection[(p[2] \div 2) * 4 + (p[1] \div 2) + 1].chosen

\* C7 witness: the example has been rendered and its first cell holds a
\* tile that is not the nearest to the flat colour.
E2EFirstCellWitness ==
    /\ Returned
    /\ canvas.size = <<8, 6>>
    /\ ~IsNearest(selection[1].chosen)

====
